---- MODULE Spec2Model ----
(***************************************************************************)
(* A model of carton.cart: CartItem and Cart, the session they are         *)
(* persisted to and the product tables they are rehydrated from.           *)
(*                                                                         *)
(* Python values are modelled by what the code does with them:             *)
(*   - a str is a sequence of one-character strings;                       *)
(*   - a Decimal is [coef, exp], value coef * 10^exp, exp <= 0;            *)
(*   - a dict is a function, its keys the function's DOMAIN; an int key    *)
(*     and a str key are different keys (IntKey(1) # StrKey(str(1)));      *)
(*   - an optional argument (price=None) is <<>> or <<value>>.             *)
(***************************************************************************)
EXTENDS Integers, Sequences, FiniteSets, TLC

VARIABLES
    cart,      \* the Cart instance of the current request
    session,   \* the session object: the cart key's value and .modified
    store,     \* the product tables: the rows that exist, and their flag
    lookup,    \* settings.CART_PRODUCT_LOOKUP: configured or not
    origin,    \* what the Cart instance was built from, and whether cleared
    last,      \* the call the view has just made and how it ended, or Idle
    other,     \* a second Cart instance on the same session
    writer     \* the instance that called update_session last: 0 (none), 1, 2

vars == <<cart, session, store, lookup, origin, last, other, writer>>

----------------------------------------------------------------------------
(* Bounds of the model.                                                    *)

\* The largest quantity a cart item reaches, and the largest quantity passed.
MaxQty == 2

\* How many times the product tables change during a behaviour.
MaxStoreChanges == 1

----------------------------------------------------------------------------
(* Products: instances of the models of carton/tests/models.py.            *)

ModelsModule == <<"carton", "tests", "models">>

Product(pk) == [module |-> ModelsModule, cls |-> "Product", pk |-> pk]

Ticket(pk) == [module |-> ModelsModule, cls |-> "Ticket", pk |-> pk]

\* The products a shop is made of. Product(1) and Ticket(1) share a primary
\* key; Product(12) has a primary key of two digits.
Products == {Product(1), Ticket(1), Product(12)}

\* The shops: the products that have a row when a behaviour starts. A shop
\* sells a pair of products: two models that share a pk, two pks of one
\* model, or two models and two pks.
Catalogues == {S \in SUBSET Products : Cardinality(S) = 2}

\* The placeholder of `last.product` for a call that takes no product.
NoProduct == [module |-> <<>>, cls |-> "", pk |-> 0]

\* django.db.models.Model.__eq__: the same model class and the same pk.
ProductEq(a, b) == a.module = b.module /\ a.cls = b.cls /\ a.pk = b.pk

----------------------------------------------------------------------------
(* str() and int() of a non-negative integer.                              *)

Digit(n) ==
    CASE n = 0 -> "0" [] n = 1 -> "1" [] n = 2 -> "2" [] n = 3 -> "3"
      [] n = 4 -> "4" [] n = 5 -> "5" [] n = 6 -> "6" [] n = 7 -> "7"
      [] n = 8 -> "8" [] n = 9 -> "9"

DigitValue(c) == CHOOSE n \in 0..9 : Digit(n) = c

RECURSIVE IntToStr(_)
IntToStr(n) ==
    IF n < 10 THEN <<Digit(n)>>
    ELSE IntToStr(n \div 10) \o <<Digit(n % 10)>>

RECURSIVE StrToInt(_)
StrToInt(s) ==
    IF Len(s) = 0 THEN 0
    ELSE 10 * StrToInt(SubSeq(s, 1, Len(s) - 1)) + DigitValue(s[Len(s)])

----------------------------------------------------------------------------
(* decimal.Decimal: Decimal(str) and str(Decimal).                         *)

Dec(coef, exp) == [coef |-> coef, exp |-> exp]

Zeros(n) == [i \in 1..n |-> "0"]

\* str(d): the digits of the coefficient, padded with zeros on the left so
\* that at least one digit precedes the point, the point -exp digits from
\* the right. The exponent is kept: str(Decimal('2.50')) = '2.50'.
DecimalToStr(d) ==
    LET ds     == IntToStr(d.coef)
        n      == 0 - d.exp
        padded == IF Len(ds) <= n THEN Zeros(n - Len(ds) + 1) \o ds ELSE ds
        cut    == Len(padded) - n
    IN  IF n = 0 THEN ds
        ELSE SubSeq(padded, 1, cut) \o <<".">> \o SubSeq(padded, cut + 1, Len(padded))

\* Decimal(s): the digits without the point, the exponent from the number
\* of digits after the point.
StrToDecimal(s) ==
    LET dots == {i \in 1..Len(s) : s[i] = "."}
    IN  IF dots = {} THEN Dec(StrToInt(s), 0)
        ELSE LET dot == CHOOSE i \in dots : TRUE
             IN  Dec(StrToInt(SubSeq(s, 1, dot - 1) \o SubSeq(s, dot + 1, Len(s))),
                     0 - (Len(s) - dot))

\* The prices the calls are made with (Decimal('5') and Decimal('2.50')),
\* and price=None.
Prices == {Dec(5, 0), Dec(250, -2)}

None == <<>>

PriceArgs == {None} \cup {<<p>> : p \in Prices}

----------------------------------------------------------------------------
(* CartItem.                                                               *)

\* CartItem.__init__: int(quantity), Decimal(str(price)).
CartItem(product, quantity, price) ==
    [product  |-> product,
     quantity |-> quantity,
     price    |-> StrToDecimal(DecimalToStr(price))]

\* CartItem.to_dict
to_dict(item) ==
    [product_pk |-> item.product.pk,
     quantity   |-> item.quantity,
     price      |-> DecimalToStr(item.price)]

\* 10^n, n >= 0.
RECURSIVE Pow10(_)
Pow10(n) == IF n = 0 THEN 1 ELSE 10 * Pow10(n - 1)

\* Decimal + Decimal: the smaller exponent, the coefficients aligned to it.
DecimalAdd(a, b) ==
    LET exp == IF a.exp < b.exp THEN a.exp ELSE b.exp
    IN  Dec(a.coef * Pow10(a.exp - exp) + b.coef * Pow10(b.exp - exp), exp)

\* CartItem.subtotal that forgets the quantity.
subtotal_IgnoresQuantity(item) == item.price

\* CartItem.subtotal
subtotal(item) == Dec(item.price.coef * item.quantity, item.price.exp)

----------------------------------------------------------------------------
(* dicts.                                                                  *)

IntKey(n) == [t |-> "int", i |-> n, s |-> <<>>]

StrKey(s) == [t |-> "str", i |-> 0, s |-> s]

EmptyDict == <<>>

\* d[k] = v
DictSet(d, k, v) == [x \in DOMAIN d \cup {k} |-> IF x = k THEN v ELSE d[x]]

\* del d[k]
DictDel(d, k) == [x \in DOMAIN d \ {k} |-> d[x]]

\* Some order of a finite set: the order a dict is iterated in.
RECURSIVE SetToSeq(_)
SetToSeq(S) ==
    IF S = {} THEN <<>>
    ELSE LET x == CHOOSE y \in S : TRUE IN <<x>> \o SetToSeq(S \ {x})

----------------------------------------------------------------------------
(* The product tables and the configured lookup.                           *)

\* A row of a product table: the product, the field the lookup tests, and
\* whether the row is still there (a deleted row is kept as deleted, so
\* that the instance made from it can still be passed to the cart).
Row(product, active, exists) ==
    [product |-> product, active |-> active, exists |-> exists]

\* The product instances a view can pass to the cart.
Instances(rows) == {r.product : r \in rows}

\* settings.CART_PRODUCT_LOOKUP = {'active': True}
ActiveLookup == <<[active |-> TRUE]>>

\* Cart.get_product_model_path without the class name.
get_product_model_path_ModuleOnly(model) == model.module

\* Cart.get_product_model_path
get_product_model_path(model) == model.module \o <<model.cls>>

\* Cart.get_product_model: path.rsplit('.', 1), then the class of that name.
get_product_model(path) ==
    [module |-> SubSeq(path, 1, Len(path) - 1), cls |-> path[Len(path)]]

\* Model.objects.all()
objects_all(Model, rows) ==
    {r \in rows : /\ r.exists
                  /\ r.product.module = Model.module
                  /\ r.product.cls = Model.cls}

\* Cart.filter_products with the configured lookup never applied.
filter_products_Unfiltered(queryset, lookup_parameters) == queryset

\* Cart.filter_products
filter_products(queryset, lookup_parameters) ==
    IF lookup_parameters # None
    THEN {r \in queryset : r.active = lookup_parameters[1].active}
    ELSE queryset

\* queryset.filter(pk__in=keys): the keys are coerced to the pk's type (int).
filter_pk_in(queryset, keys) ==
    {r \in queryset : r.product.pk \in {StrToInt(k.s) : k \in keys}}

----------------------------------------------------------------------------
(* Cart: the instance is [built, kind, d]. d is self._items_dict, kind     *)
(* says whether it is the defaultdict(dict) of __init__ or the plain {}    *)
(* that clear() assigns.                                                   *)

NoCart == [built |-> FALSE, kind |-> "defaultdict", d |-> EmptyDict]

NoSession == [has |-> FALSE, value |-> EmptyDict, modified |-> FALSE]

\* Cart.items: the items of every inner dict, in iteration order.
items(self) ==
    LET entries == UNION {{<<m, k>> : k \in DOMAIN self.d[m]} : m \in DOMAIN self.d}
        order   == SetToSeq(entries)
    IN  [i \in 1..Len(order) |-> self.d[order[i][1]][order[i][2]]]

\* Cart.products
products(self) == LET its == items(self) IN [i \in DOMAIN its |-> its[i].product]

\* `product in self.products` decided by the key instead:
\* product.pk in self._items_dict[model].
InProducts_ByKey(self, product) ==
    LET model == product.module \o <<product.cls>>
    IN  /\ model \in DOMAIN self.d
        /\ [t |-> "int", i |-> product.pk, s |-> <<>>] \in DOMAIN self.d[model]

\* `product in self.products`
InProducts(self, product) ==
    LET ps == products(self) IN \E i \in DOMAIN ps : ProductEq(ps[i], product)

\* The loop of Cart.cart_serializable: a later item replaces an earlier one
\* that has the same model path and the same str(pk).
RECURSIVE Serialize(_, _)
Serialize(its, rep) ==
    IF Len(its) = 0 THEN rep
    ELSE LET item  == Head(its)
             model == get_product_model_path(item.product)
             inner == IF model \in DOMAIN rep THEN rep[model] ELSE EmptyDict
             key   == StrKey(IntToStr(item.product.pk))
         IN  Serialize(Tail(its),
                       DictSet(rep, model, DictSet(inner, key, to_dict(item))))

\* Cart.cart_serializable
cart_serializable(self) == Serialize(items(self), EmptyDict)

\* update_session that merges the cart into the stored value, item by
\* item, instead of replacing the stored value.
update_session_Merges(self, sess) ==
    LET rep == cart_serializable(self)
        old == IF sess.has THEN sess.value ELSE EmptyDict
        inner(d, m) == IF m \in DOMAIN d THEN d[m] ELSE EmptyDict
    IN  [has |-> TRUE,
         value |-> [m \in DOMAIN old \cup DOMAIN rep |->
                      [k \in DOMAIN inner(old, m) \cup DOMAIN inner(rep, m) |->
                          IF k \in DOMAIN inner(rep, m) THEN rep[m][k]
                          ELSE old[m][k]]],
         modified |-> TRUE]

\* Cart.update_session
update_session(self, sess) ==
    [has |-> TRUE, value |-> cart_serializable(self), modified |-> TRUE]

\* Cart.count
count(self) ==
    LET its == items(self)
        sum[i \in 0..Len(its)] == IF i = 0 THEN 0 ELSE sum[i - 1] + its[i].quantity
    IN  sum[Len(its)]

\* Cart.unique_count
unique_count(self) == Len(items(self))

\* Cart.is_empty
is_empty(self) == unique_count(self) = 0

\* Cart.total: sum() starts from the int 0 and adds the subtotals.
total(self) ==
    LET its == items(self)
        sum[i \in 0..Len(its)] ==
            IF i = 0 THEN Dec(0, 0) ELSE DecimalAdd(sum[i - 1], subtotal(its[i]))
    IN  sum[Len(its)]

\* How a call ends: it returns, or it raises.
Return(self, sess) == [cart |-> self, session |-> sess, outcome |-> "ok"]

Raise(self, sess, error) == [cart |-> self, session |-> sess, outcome |-> error]

\* Cart.__init__ that ends with update_session when it loaded a stored cart.
CartInit_Persists(sess, rows, lookup_parameters) ==
    LET rep == sess.value
        found(model) ==
            filter_pk_in(
                filter_products(objects_all(get_product_model(model), rows),
                                lookup_parameters),
                DOMAIN rep[model])
        key(row) == StrKey(IntToStr(row.product.pk))
        missing == {m \in DOMAIN rep : \E r \in found(m) : key(r) \notin DOMAIN rep[m]}
        loaded(model) ==
            [k \in {key(r) : r \in found(model)} |->
                LET r    == CHOOSE x \in found(model) : key(x) = k
                    item == rep[model][k]
                IN  CartItem(r.product, item.quantity, StrToDecimal(item.price))]
        d == [m \in {x \in DOMAIN rep : found(x) # {}} |-> loaded(m)]
        self == [built |-> TRUE, kind |-> "defaultdict", d |-> d]
    IN  IF ~sess.has THEN Return([built |-> TRUE, kind |-> "defaultdict", d |-> EmptyDict], sess)
        ELSE IF missing # {} THEN Raise(NoCart, sess, "KeyError")
        ELSE Return(self, update_session(self, sess))

\* Cart.__init__
CartInit(sess, rows, lookup_parameters) ==
    LET rep == sess.value
        found(model) ==
            filter_pk_in(
                filter_products(objects_all(get_product_model(model), rows),
                                lookup_parameters),
                DOMAIN rep[model])
        key(row) == StrKey(IntToStr(row.product.pk))
        missing == {m \in DOMAIN rep : \E r \in found(m) : key(r) \notin DOMAIN rep[m]}
        loaded(model) ==
            [k \in {key(r) : r \in found(model)} |->
                LET r    == CHOOSE x \in found(model) : key(x) = k
                    item == rep[model][k]
                IN  CartItem(r.product, item.quantity, StrToDecimal(item.price))]
        d == [m \in {x \in DOMAIN rep : found(x) # {}} |-> loaded(m)]
    IN  IF ~sess.has THEN Return([built |-> TRUE, kind |-> "defaultdict", d |-> EmptyDict], sess)
        ELSE IF missing # {} THEN Raise(NoCart, sess, "KeyError")
        ELSE Return([built |-> TRUE, kind |-> "defaultdict", d |-> d], sess)

\* self._items_dict[model]: the defaultdict creates a missing entry, the
\* plain dict raises KeyError.
Outer(self, model) ==
    IF model \in DOMAIN self.d THEN [ok |-> TRUE, self |-> self]
    ELSE IF self.kind = "defaultdict"
         THEN [ok |-> TRUE, self |-> [self EXCEPT !.d = DictSet(@, model, EmptyDict)]]
         ELSE [ok |-> FALSE, self |-> self]

\* Cart.add with `=` for `+=`: a second add replaces the quantity.
add_Replaces(self, sess, product, price, quantity) ==
    LET model == get_product_model_path(product)
        key   == IntKey(product.pk)
        got   == Outer(self, model)
        s1    == got.self
    IN  IF quantity < 1 THEN Raise(self, sess, "ValueError")
        ELSE IF InProducts(self, product)
        THEN IF ~got.ok THEN Raise(self, sess, "KeyError")
             ELSE IF key \notin DOMAIN s1.d[model] THEN Raise(s1, sess, "KeyError")
             ELSE LET s2 == [s1 EXCEPT !.d[model][key].quantity = quantity]
                  IN  Return(s2, update_session(s2, sess))
        ELSE IF price = None THEN Raise(self, sess, "ValueError")
        ELSE IF ~got.ok THEN Raise(self, sess, "KeyError")
        ELSE LET s2 == [s1 EXCEPT !.d[model] =
                            DictSet(@, key, CartItem(product, quantity, price[1]))]
             IN  Return(s2, update_session(s2, sess))

\* Cart.add that gives an existing item the price of the call.
add_TakesNewPrice(self, sess, product, price, quantity) ==
    LET model == get_product_model_path(product)
        key   == IntKey(product.pk)
        got   == Outer(self, model)
        s1    == got.self
    IN  IF quantity < 1 THEN Raise(self, sess, "ValueError")
        ELSE IF InProducts(self, product)
        THEN IF ~got.ok THEN Raise(self, sess, "KeyError")
             ELSE IF key \notin DOMAIN s1.d[model] THEN Raise(s1, sess, "KeyError")
             ELSE LET s2 == [s1 EXCEPT !.d[model][key].quantity = @ + quantity,
                                       !.d[model][key].price =
                                           IF price = None THEN @ ELSE price[1]]
                  IN  Return(s2, update_session(s2, sess))
        ELSE IF price = None THEN Raise(self, sess, "ValueError")
        ELSE IF ~got.ok THEN Raise(self, sess, "KeyError")
        ELSE LET s2 == [s1 EXCEPT !.d[model] =
                            DictSet(@, key, CartItem(product, quantity, price[1]))]
             IN  Return(s2, update_session(s2, sess))

\* Cart.add
add(self, sess, product, price, quantity) ==
    LET model == get_product_model_path(product)
        key   == IntKey(product.pk)
        got   == Outer(self, model)
        s1    == got.self
    IN  IF quantity < 1 THEN Raise(self, sess, "ValueError")
        ELSE IF InProducts(self, product)
        THEN IF ~got.ok THEN Raise(self, sess, "KeyError")
             ELSE IF key \notin DOMAIN s1.d[model] THEN Raise(s1, sess, "KeyError")
             ELSE LET s2 == [s1 EXCEPT !.d[model][key].quantity = @ + quantity]
                  IN  Return(s2, update_session(s2, sess))
        ELSE IF price = None THEN Raise(self, sess, "ValueError")
        ELSE IF ~got.ok THEN Raise(self, sess, "KeyError")
        ELSE LET s2 == [s1 EXCEPT !.d[model] =
                            DictSet(@, key, CartItem(product, quantity, price[1]))]
             IN  Return(s2, update_session(s2, sess))

\* Cart.remove with update_session called outside the `if`.
remove_AlwaysPersists(self, sess, product) ==
    LET model == get_product_model_path(product)
        key   == IntKey(product.pk)
        got   == Outer(self, model)
        s1    == got.self
    IN  IF ~InProducts(self, product) THEN Return(self, update_session(self, sess))
        ELSE IF ~got.ok THEN Raise(self, sess, "KeyError")
        ELSE IF key \notin DOMAIN s1.d[model] THEN Raise(s1, sess, "KeyError")
        ELSE LET s2 == [s1 EXCEPT !.d[model] = DictDel(@, key)]
             IN  Return(s2, update_session(s2, sess))

\* Cart.remove
remove(self, sess, product) ==
    LET model == get_product_model_path(product)
        key   == IntKey(product.pk)
        got   == Outer(self, model)
        s1    == got.self
    IN  IF ~InProducts(self, product) THEN Return(self, sess)
        ELSE IF ~got.ok THEN Raise(self, sess, "KeyError")
        ELSE IF key \notin DOMAIN s1.d[model] THEN Raise(s1, sess, "KeyError")
        ELSE LET s2 == [s1 EXCEPT !.d[model] = DictDel(@, key)]
             IN  Return(s2, update_session(s2, sess))

\* Cart.remove_single that drops the item whatever its quantity.
remove_single_RemovesAll(self, sess, product) ==
    LET model == get_product_model_path(product)
        key   == IntKey(product.pk)
        got   == Outer(self, model)
        s1    == got.self
    IN  IF ~InProducts(self, product) THEN Return(self, sess)
        ELSE IF ~got.ok THEN Raise(self, sess, "KeyError")
        ELSE IF key \notin DOMAIN s1.d[model] THEN Raise(s1, sess, "KeyError")
        ELSE LET s2 == [s1 EXCEPT !.d[model] = DictDel(@, key)]
             IN  Return(s2, update_session(s2, sess))

\* Cart.remove_single with `< 1` for `<= 1`: the last unit is decremented.
remove_single_KeepsZero(self, sess, product) ==
    LET model == get_product_model_path(product)
        key   == IntKey(product.pk)
        got   == Outer(self, model)
        s1    == got.self
    IN  IF ~InProducts(self, product) THEN Return(self, sess)
        ELSE IF ~got.ok THEN Raise(self, sess, "KeyError")
        ELSE IF key \notin DOMAIN s1.d[model] THEN Raise(s1, sess, "KeyError")
        ELSE LET s2 == IF s1.d[model][key].quantity < 1
                       THEN [s1 EXCEPT !.d[model] = DictDel(@, key)]
                       ELSE [s1 EXCEPT !.d[model][key].quantity = @ - 1]
             IN  Return(s2, update_session(s2, sess))

\* Cart.remove_single
remove_single(self, sess, product) ==
    LET model == get_product_model_path(product)
        key   == IntKey(product.pk)
        got   == Outer(self, model)
        s1    == got.self
    IN  IF ~InProducts(self, product) THEN Return(self, sess)
        ELSE IF ~got.ok THEN Raise(self, sess, "KeyError")
        ELSE IF key \notin DOMAIN s1.d[model] THEN Raise(s1, sess, "KeyError")
        ELSE LET s2 == IF s1.d[model][key].quantity <= 1
                       THEN [s1 EXCEPT !.d[model] = DictDel(@, key)]
                       ELSE [s1 EXCEPT !.d[model][key].quantity = @ - 1]
             IN  Return(s2, update_session(s2, sess))

\* Cart.clear without the call of update_session.
clear_NotPersisted(self, sess) ==
    Return([self EXCEPT !.kind = "dict", !.d = EmptyDict], sess)

\* Cart.clear
clear(self, sess) ==
    LET s2 == [self EXCEPT !.kind = "dict", !.d = EmptyDict]
    IN  Return(s2, update_session(s2, sess))

\* Cart.set_quantity with `quantity < 1` rejected, as add rejects it.
set_quantity_RejectsZero(self, sess, product, quantity) ==
    LET model == get_product_model_path(product)
        key   == IntKey(product.pk)
        got   == Outer(self, model)
        s1    == got.self
    IN  IF quantity < 1 THEN Raise(self, sess, "ValueError")
        ELSE IF ~InProducts(self, product) THEN Return(self, sess)
        ELSE IF ~got.ok THEN Raise(self, sess, "KeyError")
        ELSE IF key \notin DOMAIN s1.d[model] THEN Raise(s1, sess, "KeyError")
        ELSE LET s2 == [s1 EXCEPT !.d[model][key].quantity = quantity]
             IN  Return(s2, update_session(s2, sess))

\* Cart.set_quantity with update_session called outside the `if`.
set_quantity_AlwaysPersists(self, sess, product, quantity) ==
    LET model == get_product_model_path(product)
        key   == IntKey(product.pk)
        got   == Outer(self, model)
        s1    == got.self
    IN  IF quantity < 0 THEN Raise(self, sess, "ValueError")
        ELSE IF ~InProducts(self, product) THEN Return(self, update_session(self, sess))
        ELSE IF ~got.ok THEN Raise(self, sess, "KeyError")
        ELSE IF key \notin DOMAIN s1.d[model] THEN Raise(s1, sess, "KeyError")
        ELSE LET s2 == IF quantity < 1
                       THEN [s1 EXCEPT !.d[model] = DictDel(@, key)]
                       ELSE [s1 EXCEPT !.d[model][key].quantity = quantity]
             IN  Return(s2, update_session(s2, sess))

\* Cart.set_quantity with the quantity checked after the item is updated
\* and persisted.
set_quantity_ChecksLate(self, sess, product, quantity) ==
    LET model == get_product_model_path(product)
        key   == IntKey(product.pk)
        got   == Outer(self, model)
        s1    == got.self
    IN  IF ~InProducts(self, product)
        THEN IF quantity < 0 THEN Raise(self, sess, "ValueError")
             ELSE Return(self, sess)
        ELSE IF ~got.ok THEN Raise(self, sess, "KeyError")
        ELSE IF key \notin DOMAIN s1.d[model] THEN Raise(s1, sess, "KeyError")
        ELSE LET s2 == IF quantity < 1
                       THEN [s1 EXCEPT !.d[model] = DictDel(@, key)]
                       ELSE [s1 EXCEPT !.d[model][key].quantity = quantity]
             IN  IF quantity < 0 THEN Raise(s2, update_session(s2, sess), "ValueError")
                 ELSE Return(s2, update_session(s2, sess))

\* Cart.set_quantity
set_quantity(self, sess, product, quantity) ==
    LET model == get_product_model_path(product)
        key   == IntKey(product.pk)
        got   == Outer(self, model)
        s1    == got.self
    IN  IF quantity < 0 THEN Raise(self, sess, "ValueError")
        ELSE IF ~InProducts(self, product) THEN Return(self, sess)
        ELSE IF ~got.ok THEN Raise(self, sess, "KeyError")
        ELSE IF key \notin DOMAIN s1.d[model] THEN Raise(s1, sess, "KeyError")
        ELSE LET s2 == IF quantity < 1
                       THEN [s1 EXCEPT !.d[model] = DictDel(@, key)]
                       ELSE [s1 EXCEPT !.d[model][key].quantity = quantity]
             IN  Return(s2, update_session(s2, sess))

----------------------------------------------------------------------------
(* The state machine: one Cart instance at a time on one session.          *)

Call(op, product, price, quantity, outcome, wasIn) ==
    [op |-> op, product |-> product, price |-> price, quantity |-> quantity,
     outcome |-> outcome, wasIn |-> wasIn]

\* The quantity the cart holds of a product (0 when it holds none).
Held(self, product) ==
    LET its == items(self)
        sum[i \in 0..Len(its)] ==
            IF i = 0 THEN 0
            ELSE sum[i - 1] + (IF ProductEq(its[i].product, product)
                               THEN its[i].quantity ELSE 0)
    IN  sum[Len(its)]

\* No call is being handled: the view is between two calls.
Idle == Call("none", NoProduct, None, 0, "ok", FALSE)

Init ==
    /\ cart = NoCart
    /\ session = NoSession
    /\ \E S \in Catalogues : store = {Row(p, TRUE, TRUE) : p \in S}
    /\ lookup \in {None, ActiveLookup}
    /\ origin = "none"
    /\ last = Idle
    /\ other = NoCart
    /\ writer = 0

\* cart = Cart(request.session)
Construct ==
    LET r == CartInit(session, store, lookup)
    IN  /\ last = Idle
        /\ cart' = r.cart
        /\ origin' = IF r.outcome # "ok" THEN "none"
                     ELSE IF session.has THEN "stored" ELSE "empty"
        /\ last' = Call("init", NoProduct, None, 0, r.outcome, FALSE)
        /\ session' = r.session
        /\ UNCHANGED <<store, lookup, other, writer>>

\* cart.add(product, price, quantity)
Add ==
    \E product \in Instances(store), price \in PriceArgs, quantity \in 0..MaxQty :
        LET r == add(cart, session, product, price, quantity)
        IN  /\ last = Idle
            /\ cart.built
            /\ Held(cart, product) + quantity <= MaxQty
            /\ cart' = r.cart
            /\ session' = r.session
            /\ last' = Call("add", product, price, quantity, r.outcome,
                            InProducts(cart, product))
            /\ UNCHANGED <<store, lookup, origin, other, writer>>

\* cart.remove(product)
Remove ==
    \E product \in Instances(store) :
        LET r == remove(cart, session, product)
        IN  /\ last = Idle
            /\ cart.built
            /\ cart' = r.cart
            /\ session' = r.session
            /\ last' = Call("remove", product, None, 0, r.outcome,
                            InProducts(cart, product))
            /\ UNCHANGED <<store, lookup, origin, other, writer>>

\* cart.remove_single(product)
RemoveSingle ==
    \E product \in Instances(store) :
        LET r == remove_single(cart, session, product)
        IN  /\ last = Idle
            /\ cart.built
            /\ cart' = r.cart
            /\ session' = r.session
            /\ last' = Call("remove_single", product, None, 0, r.outcome,
                            InProducts(cart, product))
            /\ UNCHANGED <<store, lookup, origin, other, writer>>

\* cart.set_quantity(product, quantity)
SetQuantity ==
    \E product \in Instances(store), quantity \in (0 - 1)..MaxQty :
        LET r == set_quantity(cart, session, product, quantity)
        IN  /\ last = Idle
            /\ cart.built
            /\ cart' = r.cart
            /\ session' = r.session
            /\ last' = Call("set_quantity", product, None, quantity, r.outcome,
                            InProducts(cart, product))
            /\ UNCHANGED <<store, lookup, origin, other, writer>>

\* cart.clear()
Clear ==
    LET r == clear(cart, session)
    IN  /\ last = Idle
        /\ cart.built
        /\ cart' = r.cart
        /\ session' = r.session
        /\ origin' = "cleared"
        /\ last' = Call("clear", NoProduct, None, 0, r.outcome, FALSE)
        /\ UNCHANGED <<store, lookup, other, writer>>

\* The request ends: the session is saved and the Cart instance is gone;
\* the next request finds the session unmodified.
EndRequest ==
    /\ last = Idle
    /\ cart.built
    /\ cart' = NoCart
    /\ session' = [session EXCEPT !.modified = FALSE]
    /\ origin' = "none"
    /\ UNCHANGED <<store, lookup, last, other, writer>>

\* The view goes on after the call: it returned, or the view caught what
\* it raised.
Resume ==
    /\ last # Idle
    /\ last' = Idle
    /\ UNCHANGED <<cart, session, store, lookup, origin, other, writer>>

\* How many times the product tables have changed.
StoreChanges == Cardinality({r \in store : ~r.exists \/ ~r.active})

\* A product row is deleted by someone else.
DeleteRow ==
    \E r \in store :
        /\ last = Idle
        /\ StoreChanges < MaxStoreChanges
        /\ r.exists
        /\ store' = (store \ {r}) \cup {Row(r.product, r.active, FALSE)}
        /\ UNCHANGED <<cart, session, lookup, origin, last, other, writer>>

\* A product row stops passing the lookup.
DeactivateRow ==
    \E r \in store :
        /\ last = Idle
        /\ StoreChanges < MaxStoreChanges
        /\ r.exists /\ r.active
        /\ store' = (store \ {r}) \cup {Row(r.product, FALSE, TRUE)}
        /\ UNCHANGED <<cart, session, lookup, origin, last, other, writer>>

Next ==
    \/ Construct
    \/ Add
    \/ Remove
    \/ RemoveSingle
    \/ SetQuantity
    \/ Clear
    \/ EndRequest
    \/ Resume
    \/ DeleteRow
    \/ DeactivateRow

Spec == Init /\ [][Next]_vars

----------------------------------------------------------------------------
(* Two Cart instances on one session: both are constructed from the same   *)
(* session, then their calls interleave. Nothing locks the session.        *)

\* The Cart instance i of the two.
Instance(i) == IF i = 1 THEN cart ELSE other

\* The call ran update_session: it marks a session whose flag was down.
Lowered(sess) == [sess EXCEPT !.modified = FALSE]

\* Instance i made a call that ended as r on the session, and as probe on
\* the same session with its flag down.
CallBy(i, r, probe) ==
    /\ cart' = IF i = 1 THEN r.cart ELSE cart
    /\ other' = IF i = 2 THEN r.cart ELSE other
    /\ session' = r.session
    /\ writer' = IF probe.session.modified THEN i ELSE writer
    /\ UNCHANGED <<store, lookup, origin, last>>

\* cart = Cart(request.session); other = Cart(request.session)
ConstructBoth ==
    LET r == CartInit(session, store, lookup)
    IN  /\ ~cart.built /\ ~other.built
        /\ r.outcome = "ok"
        /\ cart' = r.cart
        /\ other' = r.cart
        /\ session' = r.session
        /\ writer' = 0
        /\ UNCHANGED <<store, lookup, origin, last>>

AddBy ==
    \E i \in 1..2, product \in Instances(store), price \in PriceArgs,
       quantity \in 0..MaxQty :
        /\ Instance(i).built
        /\ Held(Instance(i), product) + quantity <= MaxQty
        /\ CallBy(i, add(Instance(i), session, product, price, quantity),
                     add(Instance(i), Lowered(session), product, price, quantity))

RemoveBy ==
    \E i \in 1..2, product \in Instances(store) :
        /\ Instance(i).built
        /\ CallBy(i, remove(Instance(i), session, product),
                     remove(Instance(i), Lowered(session), product))

RemoveSingleBy ==
    \E i \in 1..2, product \in Instances(store) :
        /\ Instance(i).built
        /\ CallBy(i, remove_single(Instance(i), session, product),
                     remove_single(Instance(i), Lowered(session), product))

SetQuantityBy ==
    \E i \in 1..2, product \in Instances(store), quantity \in (0 - 1)..MaxQty :
        /\ Instance(i).built
        /\ CallBy(i, set_quantity(Instance(i), session, product, quantity),
                     set_quantity(Instance(i), Lowered(session), product, quantity))

ClearBy ==
    \E i \in 1..2 :
        /\ Instance(i).built
        /\ CallBy(i, clear(Instance(i), session), clear(Instance(i), Lowered(session)))

\* The request ends: the session is saved and both instances are gone.
EndBoth ==
    /\ cart.built /\ other.built
    /\ cart' = NoCart
    /\ other' = NoCart
    /\ session' = Lowered(session)
    /\ writer' = 0
    /\ UNCHANGED <<store, lookup, origin, last>>

NextTwo ==
    \/ ConstructBoth
    \/ AddBy
    \/ RemoveBy
    \/ RemoveSingleBy
    \/ SetQuantityBy
    \/ ClearBy
    \/ EndBoth

SpecTwo == Init /\ [][NextTwo]_vars

----------------------------------------------------------------------------
(* The view that adds one unit and takes it back at once.                  *)

\* cart.add(product, price, 1); cart.remove_single(product): the second
\* call is made when the first one returned, and what the first one raises
\* ends the pair.
AddThenRemoveSingle ==
    \E product \in Instances(store), price \in Prices :
        LET r1 == add(cart, session, product, <<price>>, 1)
            r2 == IF r1.outcome = "ok"
                  THEN remove_single(r1.cart, r1.session, product)
                  ELSE r1
        IN  /\ last = Idle
            /\ cart.built
            /\ cart' = r2.cart
            /\ session' = r2.session
            /\ last' = Call("add_remove_single", product, <<price>>, 1,
                            r2.outcome, InProducts(cart, product))
            /\ UNCHANGED <<store, lookup, origin, other, writer>>

NextUndo ==
    \/ Next
    \/ AddThenRemoveSingle

SpecUndo == Init /\ [][NextUndo]_vars

----------------------------------------------------------------------------
(* What the claims are stated in.                                          *)

\* The item set of a cart: one (model, pk, quantity, price) per entry of
\* self._items_dict.
ItemSet(self) ==
    UNION {{[model    |-> get_product_model_path(self.d[m][k].product),
             pk       |-> self.d[m][k].product.pk,
             quantity |-> self.d[m][k].quantity,
             price    |-> self.d[m][k].price] : k \in DOMAIN self.d[m]}
           : m \in DOMAIN self.d}

\* The items of one product: their quantities and prices.
ItemsOf(self, product) ==
    {[quantity |-> t.quantity, price |-> t.price] :
        t \in {x \in ItemSet(self) : /\ x.model = get_product_model_path(product)
                                     /\ x.pk = product.pk}}

\* The representation the docstring of cart_serializable describes: one
\* {product_pk, quantity, price-as-string} record per item, keyed by the
\* model path and then by the stringified pk.
ExpectedRep(self) ==
    LET S == ItemSet(self)
        keyOf(t) == StrKey(IntToStr(t.pk))
    IN  [m \in {t.model : t \in S} |->
            [k \in {keyOf(t) : t \in {x \in S : x.model = m}} |->
                LET t == CHOOSE x \in S : x.model = m /\ keyOf(x) = k
                IN  [product_pk |-> t.pk,
                     quantity   |-> t.quantity,
                     price      |-> DecimalToStr(t.price)]]]

\* The product of an item has a row that exists and passes the lookup.
Live(t) ==
    \E r \in store :
        /\ r.exists
        /\ get_product_model_path(r.product) = t.model
        /\ r.product.pk = t.pk
        /\ (lookup = None \/ r.active = lookup[1].active)

\* The items of the other products.
Others(self, product) ==
    {t \in ItemSet(self) : ~(/\ t.model = get_product_model_path(product)
                             /\ t.pk = product.pk)}

\* The session holds what update_session writes for this cart.
Persisted(self, sess) ==
    sess.has /\ sess.value = ExpectedRep(self) /\ sess.modified

\* The sum over a set of items of f, for the sums the claims state.
RECURSIVE SumQuantity(_)
SumQuantity(S) ==
    IF S = {} THEN 0
    ELSE LET t == CHOOSE x \in S : TRUE IN t.quantity + SumQuantity(S \ {t})

\* The sum of price * quantity over a set of items, in units of 10^scale.
RECURSIVE SumPriceTimesQuantity(_, _)
SumPriceTimesQuantity(S, scale) ==
    IF S = {} THEN 0
    ELSE LET t == CHOOSE x \in S : TRUE
         IN  t.price.coef * Pow10(t.price.exp - scale) * t.quantity
                + SumPriceTimesQuantity(S \ {t}, scale)

\* The records the session holds for a product: the one under its model
\* path and its stringified pk, if any.
SessionRecords(sess, product) ==
    LET model == product.module \o <<product.cls>>
        key   == StrKey(IntToStr(product.pk))
    IN  IF model \in DOMAIN sess.value /\ key \in DOMAIN sess.value[model]
        THEN {sess.value[model][key]}
        ELSE {}

\* The products of another model that have the same pk.
SamePk(product, rows) ==
    {o \in Instances(rows) : o.pk = product.pk /\ o.cls # product.cls}

\* Two calls end the same way and leave the same item set.
SameResult(r1, r2) ==
    r1.outcome = r2.outcome /\ ItemSet(r1.cart) = ItemSet(r2.cart)

----------------------------------------------------------------------------
(* The claims.                                                             *)

\* C1: a Cart reconstructed from the session is interchangeable with the
\* Cart that wrote the session: when every product of the cart still has a
\* row that passes the lookup, each of add (quantity >= 1), remove,
\* remove_single and set_quantity (quantity >= 0) on a rehydrated product
\* ends the same way and leaves the same item set on both instances.
C1_ReconstructedCartInterchangeable ==
    (/\ cart.built
     /\ session.has
     /\ session.value = ExpectedRep(cart)
     /\ \A t \in ItemSet(cart) : Live(t))
    => LET B == CartInit(session, store, lookup).cart
       IN  \A p \in Instances(store) :
             InProducts(B, p) =>
               /\ \A price \in PriceArgs, q \in 1..MaxQty :
                     SameResult(add(cart, session, p, price, q),
                                add(B, session, p, price, q))
               /\ SameResult(remove(cart, session, p), remove(B, session, p))
               /\ SameResult(remove_single(cart, session, p),
                             remove_single(B, session, p))
               /\ \A q \in 0..MaxQty :
                     SameResult(set_quantity(cart, session, p, q),
                                set_quantity(B, session, p, q))

\* C2: in every reachable state of a Cart, the state after clear() included,
\* add(p, price, q) with p absent, a price given and q >= 1 succeeds: the
\* cart then holds the items it held and one item for p with quantity q and
\* the given price, and the session holds the serialization of that set.
C2_AddOfAbsentProductSucceeds ==
    [][(/\ cart.built
        /\ last'.op = "add"
        /\ ~last'.wasIn
        /\ last'.price # None
        /\ last'.quantity >= 1)
       => /\ last'.outcome = "ok"
          /\ ItemSet(cart') =
                ItemSet(cart) \cup
                    {[model    |-> get_product_model_path(last'.product),
                      pk       |-> last'.product.pk,
                      quantity |-> last'.quantity,
                      price    |-> last'.price[1]]}
          /\ session'.has
          /\ session'.value = ExpectedRep(cart')]_vars

\* C3: the only calls that fail are add with quantity < 1, add of a product
\* not in the cart without a price, and set_quantity with quantity < 0.
C3_OnlyTheThreeErrors ==
    last.outcome # "ok" =>
        \/ last.op = "add" /\ last.quantity < 1
        \/ last.op = "add" /\ ~last.wasIn /\ last.price = None
        \/ last.op = "set_quantity" /\ last.quantity < 0

\* C4: a Cart constructed from the session another Cart persisted holds
\* exactly the items of that Cart whose product still has a row that passes
\* the lookup, and its construction raises nothing.
C4_RoundTrip ==
    [][(/\ last'.op = "init"
        /\ cart.built
        /\ session.has
        /\ session.value = ExpectedRep(cart))
       => /\ last'.outcome = "ok"
          /\ cart'.built
          /\ ItemSet(cart') = {t \in ItemSet(cart) : Live(t)}]_vars

\* C4, its case: a Cart was constructed from a session that holds two
\* items, one of them of a product that was dropped.
C4_Witness ==
    /\ last.op = "init"
    /\ last.outcome = "ok"
    /\ Cardinality(ItemSet(cart)) = 1
    /\ session.has
    /\ Cardinality(UNION {{<<m, k>> : k \in DOMAIN session.value[m]}
                          : m \in DOMAIN session.value}) = 2

\* C5: add with quantity < 1, add of an absent product without a price and
\* set_quantity with quantity < 0 leave the item set, the session's value
\* and the session's modified flag as they were.
C5_FailedCallChangesNothing ==
    [][(\/ last'.op = "add" /\ last'.quantity < 1
        \/ last'.op = "add" /\ ~last'.wasIn /\ last'.price = None
        \/ last'.op = "set_quantity" /\ last'.quantity < 0)
       => /\ last'.outcome # "ok"
          /\ ItemSet(cart') = ItemSet(cart)
          /\ session' = session]_vars

\* C5, its case: set_quantity with a negative quantity on a product that is
\* in the cart has failed, in a request that has not modified the session.
C5_Witness ==
    /\ last.op = "set_quantity"
    /\ last.quantity < 0
    /\ last.wasIn
    /\ last.outcome = "ValueError"
    /\ session.has
    /\ ~session.modified

\* C6: every item the cart holds and every record the session holds has a
\* quantity of at least 1.
C6_QuantityAtLeastOne ==
    /\ \A t \in ItemSet(cart) : t.quantity >= 1
    /\ \A m \in DOMAIN session.value :
          \A k \in DOMAIN session.value[m] : session.value[m][k].quantity >= 1

\* C6, its case: remove_single has removed an item, or set_quantity has.
C6_Witness ==
    /\ last.op \in {"remove_single", "set_quantity"}
    /\ last.outcome = "ok"
    /\ last.wasIn
    /\ ~InProducts(cart, last.product)
    /\ ~is_empty(cart)

\* C7: the cart holds at most one item per (model, pk): no two entries of
\* the items view are of the same product.
C7_OneItemPerProduct ==
    LET its == items(cart)
    IN  \A i, j \in DOMAIN its :
            (/\ get_product_model_path(its[i].product)
                    = get_product_model_path(its[j].product)
             /\ its[i].product.pk = its[j].product.pk) => i = j

\* C7, its case: a product rehydrated from the session was added again.
C7_Witness ==
    /\ origin = "stored"
    /\ last.op = "add"
    /\ last.quantity >= 1
    /\ last.wasIn
    /\ InProducts(cart, last.product)

\* C8: after every successful add, every clear, and every remove,
\* remove_single or set_quantity (of a quantity >= 0) on a product that is
\* in the cart, the session holds the serialization of the cart's item set
\* and is marked modified.
C8_SessionHoldsTheSerialization ==
    (/\ cart.built
     /\ \/ last.op = "add" /\ last.outcome = "ok"
        \/ last.op = "clear"
        \/ last.op \in {"remove", "remove_single"} /\ last.wasIn
        \/ last.op = "set_quantity" /\ last.wasIn /\ last.quantity >= 0)
    => /\ session.has
       /\ session.value = ExpectedRep(cart)
       /\ session.modified

\* C9: in a Cart that started from an empty session and was changed only by
\* add, remove, remove_single and set_quantity: add of an absent product p
\* creates one item with the given quantity and price; a later add of p,
\* with any price or none, adds its quantity to that item and keeps the
\* item's price; a call on another product leaves p's item as it is.
C9_AddAggregates ==
    [][(cart.built /\ origin = "empty" /\ origin' = "empty")
       => \A p \in Instances(store) :
            /\ (/\ last'.op = "add" /\ last'.product = p /\ last'.quantity >= 1
                /\ ~last'.wasIn /\ last'.price # None)
               => /\ last'.outcome = "ok"
                  /\ ItemsOf(cart', p) =
                        {[quantity |-> last'.quantity, price |-> last'.price[1]]}
            /\ (/\ last'.op = "add" /\ last'.product = p /\ last'.quantity >= 1
                /\ last'.wasIn)
               => /\ last'.outcome = "ok"
                  /\ Cardinality(ItemsOf(cart', p)) = 1
                  /\ ItemsOf(cart', p) =
                        {[quantity |-> old.quantity + last'.quantity,
                          price    |-> old.price] : old \in ItemsOf(cart, p)}
            /\ last'.product # p => ItemsOf(cart', p) = ItemsOf(cart, p)]_vars

\* C9, its case: the second add of a product, with another price than the
\* first, has kept the first price.
C9_Witness ==
    /\ origin = "empty"
    /\ last.op = "add"
    /\ last.outcome = "ok"
    /\ last.wasIn
    /\ last.price # None
    /\ \E t \in ItemsOf(cart, last.product) :
          t.price # last.price[1] /\ t.quantity > last.quantity

\* C10: clear() leaves the cart empty (is_empty, count 0, unique_count 0,
\* no items), stores an empty representation in the session, and a Cart
\* constructed from that session is empty.
C10_ClearEmptiesCartAndSession ==
    last.op = "clear" =>
        /\ is_empty(cart)
        /\ count(cart) = 0
        /\ unique_count(cart) = 0
        /\ Len(items(cart)) = 0
        /\ session.has
        /\ DOMAIN session.value = {}
        /\ LET r == CartInit(session, store, lookup)
           IN  r.outcome = "ok" /\ r.cart.built /\ is_empty(r.cart)

\* C10, its case: clear() has returned, in a shop one of whose rows is
\* gone, and the session is marked modified.
C10_Witness ==
    /\ last.op = "clear"
    /\ last.outcome = "ok"
    /\ origin = "cleared"
    /\ cart.kind = "dict"
    /\ session.has
    /\ session.modified
    /\ \E r \in store : ~r.exists

\* C11: in a Cart that started from an empty session and was changed only
\* by add, remove, remove_single and set_quantity, remove_single(p) on a
\* product held with quantity n leaves it with n - 1 when n >= 2 and removes
\* its item when n = 1; it leaves no item of quantity 0, keeps p's price and
\* changes no other item.
C11_RemoveSingleDecrements ==
    [][(/\ cart.built
        /\ origin = "empty"
        /\ last'.op = "remove_single"
        /\ last'.wasIn)
       => LET p == last'.product
          IN  /\ last'.outcome = "ok"
              /\ Cardinality(ItemsOf(cart, p)) = 1
              /\ \A old \in ItemsOf(cart, p) :
                    ItemsOf(cart', p) =
                        IF old.quantity >= 2
                        THEN {[quantity |-> old.quantity - 1, price |-> old.price]}
                        ELSE {}
              /\ \A t \in ItemSet(cart') : t.quantity # 0
              /\ Others(cart', p) = Others(cart, p)]_vars

\* C11, its case: remove_single has left one unit of a product, beside an
\* item of another product.
C11_Witness ==
    /\ origin = "empty"
    /\ last.op = "remove_single"
    /\ last.outcome = "ok"
    /\ last.wasIn
    /\ \E t \in ItemsOf(cart, last.product) : t.quantity = 1
    /\ Others(cart, last.product) # {}

\* C12: in such a Cart, set_quantity(p, q) on a product in the cart sets its
\* quantity to q when q >= 1, its price unchanged, and removes its item
\* when q = 0, without raising; every other item is unchanged and the
\* result is persisted.
C12_SetQuantitySets ==
    [][(/\ cart.built
        /\ origin = "empty"
        /\ last'.op = "set_quantity"
        /\ last'.wasIn
        /\ last'.quantity >= 0)
       => LET p == last'.product
          IN  /\ last'.outcome = "ok"
              /\ ItemsOf(cart', p) =
                    IF last'.quantity >= 1
                    THEN {[quantity |-> last'.quantity, price |-> old.price]
                            : old \in ItemsOf(cart, p)}
                    ELSE {}
              /\ last'.quantity >= 1 => Cardinality(ItemsOf(cart', p)) = 1
              /\ Others(cart', p) = Others(cart, p)
              /\ Persisted(cart', session')]_vars

\* C12, its case: set_quantity(p, 0) has removed p's item and left the item
\* of another product.
C12_Witness ==
    /\ origin = "empty"
    /\ last.op = "set_quantity"
    /\ last.quantity = 0
    /\ last.outcome = "ok"
    /\ last.wasIn
    /\ ItemsOf(cart, last.product) = {}
    /\ Others(cart, last.product) # {}

\* C13: in such a Cart, remove(p) deletes p's whole item and persists when p
\* is in the cart, every other item unchanged; when p is not in the cart
\* the item set, the session's value and its modified flag stay as they were.
C13_RemoveDeletesOrDoesNothing ==
    [][(/\ cart.built
        /\ origin = "empty"
        /\ last'.op = "remove")
       => LET p == last'.product
          IN  /\ last'.outcome = "ok"
              /\ last'.wasIn =>
                    /\ ItemsOf(cart', p) = {}
                    /\ Others(cart', p) = Others(cart, p)
                    /\ Persisted(cart', session')
              /\ ~last'.wasIn =>
                    /\ ItemSet(cart') = ItemSet(cart)
                    /\ session' = session]_vars

\* C13, its case: remove of a product that is not in the cart has returned,
\* on a cart that holds another product.
C13_Witness ==
    /\ origin = "empty"
    /\ last.op = "remove"
    /\ last.outcome = "ok"
    /\ ~last.wasIn
    /\ ItemSet(cart) # {}

\* C14: in every reachable state of a Cart, count is the sum of the
\* quantities of the items, unique_count is the number of items (distinct
\* products), total is the sum over the items of price times quantity, and
\* is_empty is true exactly when unique_count is 0.
C14_DerivedViews ==
    cart.built =>
        LET S     == ItemSet(cart)
            tot   == total(cart)
        IN  /\ count(cart) = SumQuantity(S)
            /\ unique_count(cart) = Cardinality({<<t.model, t.pk>> : t \in S})
            /\ \A t \in S : tot.exp <= t.price.exp
            /\ tot.coef = SumPriceTimesQuantity(S, tot.exp)
            /\ is_empty(cart) <=> unique_count(cart) = 0

\* C14, its case: a rehydrated cart holds two items of different prices,
\* one of them with a quantity of 2.
C14_Witness ==
    /\ origin = "stored"
    /\ unique_count(cart) = 2
    /\ count(cart) = 3
    /\ \E t, u \in ItemSet(cart) : t.price # u.price

\* C15: products of different models that share a pk are distinct entries:
\* in a Cart that started from an empty session, adding one while the other
\* is in the cart yields two items, and add, remove, remove_single or
\* set_quantity on one never changes the quantity, price or presence of the
\* other, in the cart or in the session's representation.
C15_SamePkDifferentModel ==
    [][(/\ cart.built
        /\ origin = "empty"
        /\ last'.op \in {"add", "remove", "remove_single", "set_quantity"})
       => \A o \in SamePk(last'.product, store) :
            /\ ItemsOf(cart', o) = ItemsOf(cart, o)
            /\ SessionRecords(session', o) = SessionRecords(session, o)
            /\ (last'.op = "add" /\ last'.outcome = "ok" /\ ItemsOf(cart, o) # {})
               => /\ Cardinality(ItemsOf(cart', last'.product)) = 1
                  /\ Cardinality(ItemsOf(cart', o)) = 1
                  /\ unique_count(cart') = 2
                  /\ Cardinality(SessionRecords(session', last'.product)) = 1
                  /\ Cardinality(SessionRecords(session', o)) = 1]_vars

\* C15, its case: the Ticket was removed, or lost a unit, while the Product
\* of the same pk was in the cart (or the other way round), and that one is
\* still in the cart and in the session.
C15_Witness ==
    /\ origin = "empty"
    /\ last.op \in {"remove", "remove_single"}
    /\ last.outcome = "ok"
    /\ last.wasIn
    /\ \E o \in SamePk(last.product, store) :
          ItemsOf(cart, o) # {} /\ SessionRecords(session, o) # {}

\* C16: two Cart instances constructed from the same session, each making
\* persisting mutations: after any interleaving the session holds the
\* complete serialization of the instance that persisted last, and nothing
\* of what only the other instance holds (last writer wins on the whole
\* cart).
C16_LastWriterWins ==
    \A i \in 1..2 :
        writer = i =>
            /\ session.has
            /\ session.value = ExpectedRep(Instance(i))
            /\ \A p \in Products :
                  ItemsOf(Instance(i), p) = {} => SessionRecords(session, p) = {}

\* C16, its case: both instances have persisted changes of their own, the
\* first one last: each holds an item the other lacks, and the session has
\* no record of the item that only the second one holds.
C16_Witness ==
    /\ writer = 1
    /\ \E p, q \in Products :
          /\ ItemsOf(cart, p) # {} /\ ItemsOf(other, p) = {}
          /\ ItemsOf(other, q) # {} /\ ItemsOf(cart, q) = {}
          /\ SessionRecords(session, p) # {}
          /\ SessionRecords(session, q) = {}

\* C17: constructing a Cart never writes to the session: the value under
\* the cart key and the modified flag are what they were, also when stored
\* products were dropped; the session value changes only in a mutation that
\* persists, which leaves the serialization of the cart it acted on (so
\* without the dropped product, unless it was added again).
C17_ConstructionDoesNotWrite ==
    [][/\ last'.op = "init" => session' = session
       /\ (session'.has # session.has \/ session'.value # session.value)
             => /\ last'.op \in {"add", "remove", "remove_single",
                                 "set_quantity", "clear"}
                /\ last'.outcome = "ok"
                /\ Persisted(cart', session')]_vars

\* C17, its case: the Cart has just been constructed, a stored product was
\* dropped, and its record is still in the session, whose flag is down.
C17_Witness ==
    /\ last.op = "init"
    /\ last.outcome = "ok"
    /\ origin = "stored"
    /\ ~session.modified
    /\ \E p \in Products :
          SessionRecords(session, p) # {} /\ ItemsOf(cart, p) = {}

\* C18: remove_single(p), and set_quantity(p, q) with q >= 0, on a product
\* that is not in the cart raise nothing and change nothing: no item is
\* created for p, the item set is what it was, and the session value and
\* its modified flag are not written.
C18_AbsentProductIsNoOp ==
    [][(/\ cart.built
        /\ ~last'.wasIn
        /\ \/ last'.op = "remove_single"
           \/ last'.op = "set_quantity" /\ last'.quantity >= 0)
       => /\ last'.outcome = "ok"
          /\ ItemsOf(cart', last'.product) = {}
          /\ ItemSet(cart') = ItemSet(cart)
          /\ session' = session]_vars

\* C18, its case: set_quantity(p, 2) was called on a rehydrated cart that
\* does not hold p: p is still absent and the session's flag is still down.
C18_Witness ==
    /\ last.op = "set_quantity"
    /\ last.quantity = 2
    /\ ~last.wasIn
    /\ last.outcome = "ok"
    /\ ItemsOf(cart, last.product) = {}
    /\ ~is_empty(cart)
    /\ session.has /\ ~session.modified

\* C19 as stated: in a Cart that started from a session without the cart
\* key and was changed only by add, remove, remove_single and set_quantity,
\* add(p, price, 1) followed at once by remove_single(p) restores the item
\* set and the session representation (the cart key and the value under
\* it), whether p was absent or present.
C19_AddThenRemoveSingleRestores ==
    [][(/\ cart.built
        /\ origin = "empty"
        /\ last'.op = "add_remove_single")
       => /\ last'.outcome = "ok"
          /\ ItemSet(cart') = ItemSet(cart)
          /\ session'.has = session.has
          /\ session'.value = session.value]_vars

\* C19, amended: the pair restores the item set, whether p was absent or
\* present, and leaves the session holding the serialization of that item
\* set, marked modified: the value it held before when the cart key was
\* there, and an empty representation under a new cart key when it was not
\* (no call of this Cart had persisted yet).
C19_AddThenRemoveSingleRestoresItems ==
    [][(/\ cart.built
        /\ origin = "empty"
        /\ last'.op = "add_remove_single")
       => /\ last'.outcome = "ok"
          /\ ItemSet(cart') = ItemSet(cart)
          /\ Persisted(cart', session')
          /\ session.has => session'.value = session.value
          /\ ~session.has => /\ is_empty(cart)
                             /\ DOMAIN session'.value = {}]_vars

\* C19, its case: the pair was applied to a product the cart held, next to
\* another product, and the session holds both.
C19_Witness ==
    /\ origin = "empty"
    /\ last.op = "add_remove_single"
    /\ last.outcome = "ok"
    /\ last.wasIn
    /\ unique_count(cart) = 2
    /\ Persisted(cart, session)

====
